---- MODULE Spec2Model ----
(***************************************************************************)
(* Webhook handlers that forward opted-in form submissions to the Klaviyo  *)
(* contacts API.  Each handler invocation is a process whose steps are the *)
(* stretches of code between two awaits; the contacts API is the           *)
(* environment: it keeps the set of e-mails that own a profile and answers *)
(* every outbound call with one of the answers the API can give.           *)
(*                                                                         *)
(* Text that the code trims, lower-cases or matches against a pattern      *)
(* (email, phone, marketing, list ids) is a sequence of one-character      *)
(* strings, so those conversions are computed, not assumed.  Fields of the *)
(* submission that only travel into the profile attributes (name, city,    *)
(* state, country, goal, group, payment_method, zip) are left out: no      *)
(* branch of the code reads them.  The job id of a subscription answer is  *)
(* kept where the code reads it (src/unnamed/part_001).                    *)
(***************************************************************************)
EXTENDS Integers, Sequences, FiniteSets, TLC

VARIABLES env, store, pc, req, loc, calls, resp, hist

vars == <<env, store, pc, req, loc, calls, resp, hist>>

(* ---------------------------- invocations ---------------------------- *)

\* The handler invocations of one behaviour: one is served alone, two run
\* in succession or interleaved at their awaits.
Invocations == {1, 2}

(* --------------------------- JavaScript values ----------------------- *)

Undef == [t |-> "undefined"]
Null == [t |-> "null"]
B(b) == [t |-> "boolean", b |-> b]
N(n) == [t |-> "number", n |-> n]
S(s) == [t |-> "string", s |-> s]
Obj(e, p, m) == [t |-> "object", o |-> [email |-> e, phone |-> p, marketing |-> m]]
EmptyObj == Obj(Undef, Undef, Undef)

\* JavaScript truthiness (the `!x`, `x || y` and `if (x)` tests).
Truthy(v) ==
    CASE v.t = "undefined" -> FALSE
      [] v.t = "null" -> FALSE
      [] v.t = "boolean" -> v.b
      [] v.t = "number" -> v.n # 0
      [] v.t = "string" -> v.s # << >>
      [] OTHER -> TRUE

\* String(v) for the primitive values the submissions carry.
String(v) ==
    CASE v.t = "string" -> v.s
      [] v.t = "boolean" -> IF v.b THEN <<"t", "r", "u", "e">> ELSE <<"f", "a", "l", "s", "e">>
      [] v.t = "number" -> IF v.n = 1 THEN <<"1">> ELSE <<"0">>
      [] v.t = "undefined" -> <<"u", "n", "d", "e", "f", "i", "n", "e", "d">>
      [] v.t = "null" -> <<"n", "u", "l", "l">>
      [] OTHER -> <<"[", "o", "b", "j", "e", "c", "t", "]">>

WhiteSpace == {" ", "\t", "\n"}

RECURSIVE trimStart(_)
trimStart(s) ==
    IF s = << >> THEN << >>
    ELSE IF Head(s) \in WhiteSpace THEN trimStart(Tail(s)) ELSE s

RECURSIVE trimEnd(_)
trimEnd(s) ==
    IF s = << >> THEN << >>
    ELSE IF s[Len(s)] \in WhiteSpace THEN trimEnd(SubSeq(s, 1, Len(s) - 1)) ELSE s

\* String.prototype.trim
trim(s) == trimEnd(trimStart(s))

UpperToLower ==
    [c \in {"A", "B", "C", "D", "E", "F", "G", "H", "I", "J", "K", "L", "M",
            "N", "O", "P", "Q", "R", "S", "T", "U", "V", "W", "X", "Y", "Z"} |->
        CASE c = "A" -> "a" [] c = "B" -> "b" [] c = "C" -> "c" [] c = "D" -> "d"
          [] c = "E" -> "e" [] c = "F" -> "f" [] c = "G" -> "g" [] c = "H" -> "h"
          [] c = "I" -> "i" [] c = "J" -> "j" [] c = "K" -> "k" [] c = "L" -> "l"
          [] c = "M" -> "m" [] c = "N" -> "n" [] c = "O" -> "o" [] c = "P" -> "p"
          [] c = "Q" -> "q" [] c = "R" -> "r" [] c = "S" -> "s" [] c = "T" -> "t"
          [] c = "U" -> "u" [] c = "V" -> "v" [] c = "W" -> "w" [] c = "X" -> "x"
          [] c = "Y" -> "y" [] OTHER -> "z"]

\* String.prototype.toLowerCase
toLowerCase(s) ==
    [k \in 1..Len(s) |-> IF s[k] \in DOMAIN UpperToLower THEN UpperToLower[s[k]] ELSE s[k]]

(* ----------------------- helpers of src/api/klaviyo.js ---------------- *)

str(v) == IF v.t \in {"undefined", "null"} THEN << >> ELSE trim(String(v))

CheckedTokens ==
    {<<"o", "n">>, <<"t", "r", "u", "e">>, <<"1">>, <<"y", "e", "s">>, <<"y">>}

\* Variant: any text counts as consent (the `!marketing` test).
isChecked_anyText(v) == str(v) # << >>

isChecked(v) == toLowerCase(str(v)) \in CheckedTokens

Digits == {"0", "1", "2", "3", "4", "5", "6", "7", "8", "9"}

\* /^\+[1-9]\d{1,14}$/ on the trimmed text
isE164Phone(v) ==
    LET s == str(v) IN
    /\ Len(s) >= 3
    /\ Len(s) <= 16
    /\ s[1] = "+"
    /\ s[2] \in Digits \ {"0"}
    /\ \A k \in 3..Len(s) : s[k] \in Digits

\* pruneUndefined: the keys whose value is undefined, null or "" are dropped
\* (a dropped key reads back as undefined).
pruneUndefined(obj) ==
    [k \in DOMAIN obj |->
        IF obj[k].t \in {"undefined", "null"} \/ obj[k] = S(<< >>) THEN Undef ELSE obj[k]]

(* ------------------------------ inputs -------------------------------- *)

EmailA == <<"a", "@", "b">>
EmailC == <<"c", "@", "d">>
Emails == {EmailA, EmailC}

ValidPhone == <<"+", "1", "5", "5", "5">>
BadPhone == <<"5", "5", "5", "-", "1", "2">>

ListA == <<"L", "A">>
ListB == <<"L", "B">>

Secret == <<"s3cret">>

\* process.env of one deployment: every variable set, or one thing missing.
FullEnv ==
    [KLAVIYO_API_KEY |-> S(<<"pk">>), KLAVIYO_LIST_1 |-> S(ListA),
     KLAVIYO_LIST_2 |-> S(ListB), WEBHOOK_AUTH_BEARER |-> Undef]

Envs ==
    {FullEnv,
     [FullEnv EXCEPT !.WEBHOOK_AUTH_BEARER = S(Secret)],
     [FullEnv EXCEPT !.KLAVIYO_API_KEY = Undef],
     [FullEnv EXCEPT !.KLAVIYO_LIST_1 = Undef],
     [FullEnv EXCEPT !.KLAVIYO_LIST_2 = S(<<" ">>)],
     [FullEnv EXCEPT !.KLAVIYO_LIST_1 = Undef, !.KLAVIYO_LIST_2 = Undef]}

Methods == {"POST", "GET"}

\* Authorization header, as the sequence of its parts; << >> is no header.
AuthHeaders == {<< >>, <<"Bearer", " ", "s3cret">>, <<"Bearer", " ", "wrong">>, <<"bearer", " ", "s3cret">>}

\* Content-Type header, as the sequence of its parts; << >> is no header.
ContentTypes ==
    {<< >>, <<"Application/JSON", "; charset=utf-8">>, <<"application/x-www-form-urlencoded">>}

EmailValues ==
    {Undef, Null, S(<< >>), S(<<" ", " ">>), S(EmailA), S(<<" ">> \o EmailC \o <<" ">>)}

PhoneValues == {Undef, S(BadPhone), S(<<" ">> \o ValidPhone)}

MarketingValues ==
    {Undef, S(<<"o", "n">>), S(<<"O", "N">>), S(<<" ", "Y", "e", "s">>), B(TRUE), N(1),
     S(<<"c", "h", "e", "c", "k", "e", "d">>), S(<<"n", "o">>), S(<<"o", "f", "f">>),
     S(<<"f", "a", "l", "s", "e">>), B(FALSE), S(<< >>)}

Payloads == {Obj(e, p, m) : e \in EmailValues, p \in PhoneValues, m \in MarketingValues}

\* req.body as the framework hands it over: absent, null, a non-object, or
\* the submission.
Bodies == {Undef, Null, S(<<"x">>)} \cup Payloads

\* Every POST, and the other methods with a body that a POST would act on.
Requests ==
    [handler : {"klaviyo"}, method : {"POST"}, authorization : AuthHeaders,
     contentType : ContentTypes, body : Bodies]
    \cup [handler : {"klaviyo"}, method : Methods \ {"POST"}, authorization : AuthHeaders,
          contentType : ContentTypes,
          body : {Undef, Null, Obj(S(EmailA), S(ValidPhone), S(<<"o", "n">>))}]

\* The requests to the handler of src/unnamed/part_004.
BasinRequests ==
    [handler : {"basin"}, method : {"POST"}, authorization : {<< >>, <<"Bearer", " ", "s3cret">>},
     contentType : ContentTypes, body : Bodies]
    \cup [handler : {"basin"}, method : Methods \ {"POST"}, authorization : {<< >>},
          contentType : ContentTypes, body : {Undef}]

\* The requests to the klaviyo-webhook handler, which reads neither the
\* Authorization nor the Content-Type header.
WebhookRequests ==
    [handler : {"webhook"}, method : Methods, authorization : {<< >>},
     contentType : {<<"Application/JSON", "; charset=utf-8">>}, body : Bodies]

\* The opted-in JSON submissions that concurrent invocations serve.
ConcRequests ==
    [handler : {"klaviyo"}, method : {"POST"}, authorization : {<< >>},
     contentType : {<<"Application/JSON", "; charset=utf-8">>},
     body : {Obj(S(e), p, S(<<"o", "n">>)) : e \in Emails, p \in {Undef, S(ValidPhone)}}]
    \cup [handler : {"klaviyo"}, method : {"POST"}, authorization : {<< >>},
          contentType : {<<"application/x-www-form-urlencoded">>},
          body : {Obj(S(e), Undef, B(TRUE)) : e \in Emails}]

NoRequest ==
    [handler |-> "none", method |-> "none", authorization |-> << >>,
     contentType |-> << >>, body |-> Undef]

(* --------------------------- the contacts API ------------------------- *)

NoId == "none"
IdOf(e) == IF trim(e) = EmailA THEN "01A" ELSE "01C"
\* The profile that owns the phone number when the conflict is on the phone.
PhoneOwnerId == "01P"

Http(status) == [kind |-> "http", status |-> status, id |-> NoId, dup |-> NoId, region |-> FALSE]
\* fetch() itself rejects (DNS, reset connection): a TypeError, not a KlaviyoError.
NetworkError == [kind |-> "network", status |-> 0, id |-> NoId, dup |-> NoId, region |-> FALSE]

Ok2xx(a) == a.kind = "http" /\ a.status >= 200 /\ a.status <= 299

\* The contacts API keys a profile by its email without the white space
\* around it.
ProfileKey(email) == trim(email)

\* POST /api/profiles: 201 when no profile owns the email, 409 when one does
\* (the error metadata may or may not name it) or when another profile owns
\* the phone number; any call may fail otherwise.
CreateAnswers(email, phone_number, st) ==
    (IF ProfileKey(email) \in st
        THEN {[Http(409) EXCEPT !.dup = IdOf(email)], Http(409)}
        ELSE {[Http(201) EXCEPT !.id = IdOf(email)]}
             \cup (IF phone_number # Undef
                      THEN {[Http(409) EXCEPT !.dup = PhoneOwnerId], Http(409)}
                      ELSE {}))
    \cup {Http(500), NetworkError}

\* GET /api/profiles?filter=equals(email,...): the profile's id, or no data.
LookupAnswers(email, st) ==
    {[Http(200) EXCEPT !.id = IF ProfileKey(email) \in st THEN IdOf(email) ELSE NoId], Http(500), NetworkError}

\* GET /api/profiles?filter=equals(phone_number,...)
PhoneLookupAnswers == {[Http(200) EXCEPT !.id = PhoneOwnerId], Http(200), Http(500), NetworkError}

\* PATCH /api/profiles/{id}
PatchAnswers == {Http(200), Http(404), NetworkError}

\* POST /api/profile-subscription-bulk-create-jobs: 202, or a failure; a job
\* that grants SMS consent may be refused with 400 "region not supported".
SubscribeAnswers(sms) ==
    {Http(202), Http(500), NetworkError}
    \cup (IF sms THEN {[Http(400) EXCEPT !.region = TRUE]} ELSE {})

\* An answer other than success, the recoverable conflict on create apart.
IsFault(a) == ~Ok2xx(a) /\ ~(a.kind = "http" /\ a.status = 409)

(* ------------------------ calls, results, responses ------------------- *)

\* An outbound call: its operation and what it carries; emailConsent and sms
\* are the marketing consents a subscription job grants.
Call(op) ==
    [op |-> op, email |-> Undef, phone_number |-> Undef, id |-> NoId, list |-> << >>,
     emailConsent |-> FALSE, sms |-> FALSE]

NoUpsert == [created |-> FALSE, patched |-> FALSE, profileId |-> NoId]

NoLoc ==
    [reqId |-> 0, xRequestId |-> 0, email |-> << >>, phone |-> << >>,
     attributes |-> [email |-> Undef, phone_number |-> Undef],
     duplicateId |-> NoId, patchId |-> NoId, upsertResult |-> NoUpsert,
     includeSms |-> FALSE, sub |-> [A |-> "none", B |-> "none"],
     jobs |-> [A |-> NoId, B |-> NoId]]

\* What happened to an invocation, kept for the properties: an upstream call
\* failed, create answered 409, the lists whose job was refused for the SMS
\* region, the request stream was read, the invocations that had responded
\* when this one began.
NoHist == [fault |-> FALSE, conflict |-> FALSE, region |-> {}, bodyRead |-> FALSE, after |-> {}]

\* err.message: its fixed text and what the code interpolates into it.
Message(text) == [text |-> text, method |-> "", path |-> "", status |-> 0, email |-> << >>]

\* res.status(code).json(body): the fields of the body that the claims read,
\* and the X-Request-ID header that the response carries.
Response(code, l) ==
    [code |-> code, error |-> "", status |-> "", message |-> Message(""), reqId |-> l.reqId,
     phone_included |-> FALSE, subscribed_lists |-> << >>, upsert |-> NoUpsert,
     xRequestId |-> l.xRequestId]

\* Variant: the catch block answers without the correlation identifier.
InternalError_anonymous(l, message) ==
    [Response(500, l) EXCEPT !.error = "Internal Error", !.message = message, !.reqId = 0]

\* The body of the catch block of handler: 500 "Internal Error" with err.message.
InternalError(l, message) ==
    [Response(500, l) EXCEPT !.error = "Internal Error", !.message = message]

\* safeMeta, lines 337-341: the authorization key is the one it redacts.
safeMeta(meta) ==
    IF "authorization" \in DOMAIN meta THEN [meta EXCEPT !.authorization = "[redacted]"] ELSE meta

\* The record the catch block of handler writes with logError, lines 176-181
\* and 334-336: err.message goes into it as it is.
unhandledError(l, message) ==
    [level |-> "error", reqId |-> l.reqId, msg |-> "unhandled_error"] @@ safeMeta([message |-> message])

\* err.message of the error klaviyoRequest throws for answer a to `method path`.
ErrorMessage(a, method, path) ==
    IF a.kind = "http"
        THEN [Message("Klaviyo") EXCEPT !.method = method, !.path = path, !.status = a.status]
        ELSE Message("fetch failed")

(* ------------------------------- state -------------------------------- *)

TypeOK ==
    /\ env \in Envs
    /\ store \subseteq Emails \cup {<< >>}
    /\ \A i \in Invocations : Len(resp[i]) <= 1
    /\ pc \in [Invocations -> {"idle", "readRawBody", "create", "diagnoseEmail", "diagnosePhone",
                               "lookup", "patch", "subscribe", "done",
                               "basinReadRawBody", "basinCreate", "basinSubscribe",
                               "webhookCreate", "webhookList2", "webhookList1",
                               "part001ReadRawBody", "part001Create", "part001List1",
                               "part001List2", "usebasinSubscribe",
                               "part000Create", "part000List1", "part000List2",
                               "part000Subscribe"}]
    /\ DOMAIN req = Invocations
    /\ DOMAIN loc = Invocations
    /\ DOMAIN calls = Invocations
    /\ DOMAIN resp = Invocations
    /\ DOMAIN hist = Invocations

InitWith(envs, stores) ==
    /\ env \in envs
    /\ store \in stores
    /\ pc = [i \in Invocations |-> "idle"]
    /\ req = [i \in Invocations |-> NoRequest]
    /\ loc = [i \in Invocations |-> NoLoc]
    /\ calls = [i \in Invocations |-> << >>]
    /\ resp = [i \in Invocations |-> << >>]
    /\ hist = [i \in Invocations |-> NoHist]

\* One deployment, and the contacts API with or without a profile for EmailA.
Init == InitWith(Envs, {{}, {EmailA}})

(* ---------------- continuations: the code up to the next await -------- *)
\* Each sets pc', loc', calls' and resp' of invocation i.

\* return res.status(...).json(r)
reply(i, l, r) ==
    /\ pc' = [pc EXCEPT ![i] = "done"]
    /\ loc' = [loc EXCEPT ![i] = l]
    /\ resp' = [resp EXCEPT ![i] = Append(@, r)]
    /\ calls' = calls

\* Variant: the outbound calls of every invocation go through one
\* module-level buffer, that of the first invocation.
send_sharedBuffer(i, l, cs, at) ==
    /\ pc' = [pc EXCEPT ![i] = at]
    /\ loc' = [loc EXCEPT ![i] = l]
    /\ calls' = [calls EXCEPT ![1] = @ \o cs]
    /\ resp' = resp

\* fetch(...) of the calls cs, then the await that suspends the invocation
send(i, l, cs, at) ==
    /\ pc' = [pc EXCEPT ![i] = at]
    /\ loc' = [loc EXCEPT ![i] = l]
    /\ calls' = [calls EXCEPT ![i] = @ \o cs]
    /\ resp' = resp

\* klaviyoRequest, line 371-372: no key, no fetch
keyMissing == ~Truthy(env.KLAVIYO_API_KEY)

\* Variant: the job grants the email consent only.
subscribeBody_emailOnly(l, listId) ==
    [Call("subscribe") EXCEPT
        !.email = S(l.email),
        !.phone_number = IF Truthy(S(l.phone)) THEN S(l.phone) ELSE Undef,
        !.emailConsent = TRUE,
        !.list = listId]

\* handler, lines 112-156: the list check, then both subscription jobs are
\* posted before the first of them is awaited (Promise.all); the invocation
\* resumes at `at`.  (src/unnamed/part_004, lines 134-195, is the same text.)
subscribeBody(l, listId) ==
    [Call("subscribe") EXCEPT
        !.email = S(l.email),
        !.phone_number = IF Truthy(S(l.phone)) THEN S(l.phone) ELSE Undef,
        !.emailConsent = TRUE,
        !.sms = Truthy(S(l.phone)),
        !.list = listId]

\* Variant: only the first list is subscribed to.
subscribeStart_firstListOnly(i, l, at) ==
    LET listA == str(env.KLAVIYO_LIST_1)
        listB == str(env.KLAVIYO_LIST_2)
        ls == [l EXCEPT !.includeSms = Truthy(S(l.phone)), !.sub = [A |-> "pending", B |-> "ok"]]
    IN  IF listA = << >> \/ listB = << >>
            THEN reply(i, l, [Response(500, l) EXCEPT !.error = "Missing KLAVIYO_LIST_A_ID or KLAVIYO_LIST_B_ID"])
        ELSE send(i, ls, <<subscribeBody(l, listA)>>, at)

subscribeStart(i, l, at) ==
    LET listA == str(env.KLAVIYO_LIST_1)
        listB == str(env.KLAVIYO_LIST_2)
        ls == [l EXCEPT !.includeSms = Truthy(S(l.phone)), !.sub = [A |-> "pending", B |-> "pending"]]
    IN  IF listA = << >> \/ listB = << >>
            THEN reply(i, l, [Response(500, l) EXCEPT !.error = "Missing KLAVIYO_LIST_A_ID or KLAVIYO_LIST_B_ID"])
        ELSE IF keyMissing
            THEN reply(i, l, InternalError(l, Message("Missing KLAVIYO_PRIVATE_KEY")))
        ELSE send(i, ls, <<subscribeBody(l, listA), subscribeBody(l, listB)>>, at)

\* patchProfile, lines 227-231
patchStart(i, l, id) ==
    IF keyMissing
        THEN reply(i, l, InternalError(l, Message("Missing KLAVIYO_PRIVATE_KEY")))
    ELSE send(i, [l EXCEPT !.patchId = id],
              <<[Call("patch") EXCEPT !.id = id, !.email = l.attributes.email,
                                      !.phone_number = l.attributes.phone_number]>>,
              "patch")

\* getProfileIdByEmail, lines 235-241, and line 218 when it returns null
lookupStart(i, l) ==
    LET email == str(l.attributes.email) IN
    IF email = << >>
        THEN reply(i, l, InternalError(l, [Message("Conflict without profile id and lookup failed for") EXCEPT !.email = email]))
    ELSE IF keyMissing
        THEN reply(i, l, InternalError(l, Message("Missing KLAVIYO_PRIVATE_KEY")))
    ELSE send(i, l, <<[Call("lookupByEmail") EXCEPT !.email = S(email)]>>, "lookup")

\* upsertProfile, lines 209-217: after diagnoseDuplicate has returned
afterDiagnose(i, l) ==
    IF l.duplicateId # NoId THEN patchStart(i, l, l.duplicateId) ELSE lookupStart(i, l)

\* diagnoseDuplicate, lines 308-311 (a throw of klaviyoRequest is swallowed)
diagnosePhoneStart(i, l) ==
    LET phone == str(l.attributes.phone_number) IN
    IF phone # << >> /\ ~keyMissing
        THEN send(i, l, <<[Call("lookupByPhone") EXCEPT !.phone_number = S(phone)]>>, "diagnosePhone")
    ELSE afterDiagnose(i, l)

\* diagnoseDuplicate, lines 293-300 (a throw of klaviyoRequest is swallowed)
diagnoseEmailStart(i, l) ==
    LET email == str(l.attributes.email) IN
    IF email # << >> /\ ~keyMissing
        THEN send(i, l, <<[Call("lookupByEmail") EXCEPT !.email = S(email)]>>, "diagnoseEmail")
    ELSE diagnosePhoneStart(i, l)

\* Variant: the phone is passed on as submitted.
keptPhone_unchecked(rawPhone) == rawPhone

\* handler, line 63
keptPhone(rawPhone) == IF isE164Phone(S(rawPhone)) THEN rawPhone ELSE << >>

\* payload.<key>: undefined on a primitive
Get(payload, key) == IF payload.t = "object" THEN payload.o[key] ELSE Undef

\* handler, lines 54-104, and upsertProfile up to its first await (line 195);
\* the invocation resumes at `at`.  (src/unnamed/part_004, lines 64-131, is
\* the same text.)
normalize(i, l, payload, at) ==
    IF payload.t \in {"undefined", "null"}
        THEN reply(i, l, InternalError(l, Message("Cannot read properties of null")))
    ELSE
    LET email == str(Get(payload, "email"))
        phone == keptPhone(str(Get(payload, "phone")))
        attributes == pruneUndefined([email |-> S(email), phone_number |-> S(phone)])
        ln == [l EXCEPT !.email = email, !.phone = phone]
    IN  IF email = << >>
            THEN reply(i, l, [Response(400, l) EXCEPT !.error = "Missing email"])
        ELSE IF ~isChecked(Get(payload, "marketing"))
            THEN reply(i, ln, [Response(200, l) EXCEPT !.status = "skipped"])
        ELSE IF keyMissing
            THEN reply(i, ln, InternalError(l, Message("Missing KLAVIYO_PRIVATE_KEY")))
        ELSE send(i, [ln EXCEPT !.attributes = attributes],
                  <<[Call("create") EXCEPT !.email = attributes.email,
                                           !.phone_number = attributes.phone_number]>>,
                  at)

(* ------------------- src/api/klaviyo.js, lines 13-188 ------------------ *)

\* (req.headers["content-type"] || "").toLowerCase()
lowerHeader(h) == [k \in 1..Len(h) |-> IF h[k] = "Application/JSON" THEN "application/json" ELSE h[k]]
includes(h, part) == \E k \in 1..Len(h) : h[k] = part

\* Object.fromEntries(new URLSearchParams(raw)) of the form encoding of a
\* submission: every key that is present carries text.
formField(v) == IF v.t \in {"undefined", "null"} THEN Undef ELSE S(String(v))
fromEntries(body) ==
    IF body.t = "object"
        THEN Obj(formField(body.o.email), formField(body.o.phone), formField(body.o.marketing))
        ELSE EmptyObj

note(i, a) ==
    hist' = [hist EXCEPT ![i].fault = @ \/ IsFault(a),
                         ![i].conflict = @ \/ (a.kind = "http" /\ a.status = 409)]

noteJob(i, L, a) ==
    hist' = [hist EXCEPT ![i].fault = @ \/ IsFault(a),
                         ![i].region = IF a.region THEN @ \cup {L} ELSE @]

\* Variant: the bearer check comes before the method gate.
entry_bearerFirst(i, r, read, create) ==
    LET l == [NoLoc EXCEPT !.reqId = i, !.xRequestId = i]
        requiredBearer == env.WEBHOOK_AUTH_BEARER
        contentType == lowerHeader(r.contentType)
    IN
    IF Truthy(requiredBearer) /\ r.authorization # <<"Bearer", " ">> \o requiredBearer.s
        THEN reply(i, l, [Response(401, l) EXCEPT !.error = "Unauthorized"])
    ELSE IF r.method # "POST"
        THEN reply(i, l, [Response(405, l) EXCEPT !.error = "Method Not Allowed"])
    ELSE IF includes(contentType, "application/json")
        THEN normalize(i, l, IF Truthy(r.body) THEN r.body ELSE EmptyObj, create)
    ELSE IF includes(contentType, "application/x-www-form-urlencoded")
        THEN send(i, l, << >>, read)
    ELSE normalize(i, l, IF r.body.t \in {"object", "null"} THEN r.body ELSE EmptyObj, create)

\* Variant: the bearer check looks at the scheme of the header only.
entry_schemeOnly(i, r, read, create) ==
    LET l == [NoLoc EXCEPT !.reqId = i, !.xRequestId = i]
        requiredBearer == env.WEBHOOK_AUTH_BEARER
        contentType == lowerHeader(r.contentType)
    IN
    IF r.method # "POST"
        THEN reply(i, l, [Response(405, l) EXCEPT !.error = "Method Not Allowed"])
    ELSE IF Truthy(requiredBearer) /\ (r.authorization = << >> \/ Head(r.authorization) # "Bearer")
        THEN reply(i, l, [Response(401, l) EXCEPT !.error = "Unauthorized"])
    ELSE IF includes(contentType, "application/json")
        THEN normalize(i, l, IF Truthy(r.body) THEN r.body ELSE EmptyObj, create)
    ELSE IF includes(contentType, "application/x-www-form-urlencoded")
        THEN send(i, l, << >>, read)
    ELSE normalize(i, l, IF r.body.t \in {"object", "null"} THEN r.body ELSE EmptyObj, create)

\* handler, lines 14-51: the correlation identifier and its header, the
\* method gate, the bearer check and the choice of the body parser; JSON and untyped bodies run on to line 54.  The
\* invocation resumes at `read` after the stream, at `create` after the
\* create call.  (src/unnamed/part_004, lines 20-61, is the same text.)
entry(i, r, read, create) ==
    LET l == [NoLoc EXCEPT !.reqId = i, !.xRequestId = i]
        requiredBearer == env.WEBHOOK_AUTH_BEARER
        contentType == lowerHeader(r.contentType)
    IN
    IF r.method # "POST"
        THEN reply(i, l, [Response(405, l) EXCEPT !.error = "Method Not Allowed"])
    ELSE IF Truthy(requiredBearer) /\ r.authorization # <<"Bearer", " ">> \o requiredBearer.s
        THEN reply(i, l, [Response(401, l) EXCEPT !.error = "Unauthorized"])
    ELSE IF includes(contentType, "application/json")
        THEN normalize(i, l, IF Truthy(r.body) THEN r.body ELSE EmptyObj, create)
    ELSE IF includes(contentType, "application/x-www-form-urlencoded")
        THEN send(i, l, << >>, read)
    ELSE normalize(i, l, IF r.body.t \in {"object", "null"} THEN r.body ELSE EmptyObj, create)

\* A request reaches an idle invocation.
receive(i, r, name) ==
    /\ pc[i] = "idle"
    /\ r.handler = name
    /\ req' = [req EXCEPT ![i] = r]
    /\ hist' = [hist EXCEPT ![i].after = {j \in Invocations : pc[j] = "done"}]
    /\ UNCHANGED <<env, store>>

\* The handler of src/api/klaviyo.js is invoked with request r.
handler(i, r) ==
    /\ receive(i, r, "klaviyo")
    /\ entry(i, r, "readRawBody", "create")

\* line 47-48: the request stream has been read
readRawBody(i) ==
    /\ pc[i] = "readRawBody"
    /\ hist' = [hist EXCEPT ![i].bodyRead = TRUE]
    /\ UNCHANGED <<env, store, req>>
    /\ normalize(i, loc[i], fromEntries(req[i].body), "create")

\* Variant: a 409 on create is fatal, like any other failure.
upsertProfile_conflictIsFatal(i, a) ==
    LET l == loc[i] IN
    /\ pc[i] = "create"
    /\ store' = IF Ok2xx(a) THEN store \cup {ProfileKey(l.email)} ELSE store
    /\ note(i, a)
    /\ UNCHANGED <<env, req>>
    /\ IF Ok2xx(a)
          THEN subscribeStart(i, [l EXCEPT !.upsertResult =
                                    [created |-> TRUE, patched |-> FALSE, profileId |-> a.id]],
                              "subscribe")
          ELSE reply(i, l, InternalError(l, ErrorMessage(a, "POST", "/api/profiles")))

\* Variant: every failure of the create call is taken for a conflict.
upsertProfile_anyFailureIsConflict(i, a) ==
    LET l == loc[i] IN
    /\ pc[i] = "create"
    /\ store' = IF Ok2xx(a) THEN store \cup {ProfileKey(l.email)} ELSE store
    /\ note(i, a)
    /\ UNCHANGED <<env, req>>
    /\ IF Ok2xx(a)
          THEN subscribeStart(i, [l EXCEPT !.upsertResult =
                                    [created |-> TRUE, patched |-> FALSE, profileId |-> a.id]],
                              "subscribe")
          ELSE diagnoseEmailStart(i, [l EXCEPT !.duplicateId = a.dup])

\* upsertProfile, lines 195-223: the answer to POST /api/profiles
upsertProfile(i, a) ==
    LET l == loc[i] IN
    /\ pc[i] = "create"
    /\ store' = IF Ok2xx(a) THEN store \cup {ProfileKey(l.email)} ELSE store
    /\ note(i, a)
    /\ UNCHANGED <<env, req>>
    /\ IF Ok2xx(a)
          THEN subscribeStart(i, [l EXCEPT !.upsertResult =
                                    [created |-> TRUE, patched |-> FALSE, profileId |-> a.id]],
                              "subscribe")
       ELSE IF a.kind = "http" /\ a.status = 409
          THEN diagnoseEmailStart(i, [l EXCEPT !.duplicateId = a.dup])
       ELSE reply(i, l, InternalError(l, ErrorMessage(a, "POST", "/api/profiles")))

\* diagnoseDuplicate, lines 300-306: the answer to the lookup by email
diagnoseDuplicateEmail(i, a) ==
    /\ pc[i] = "diagnoseEmail"
    /\ note(i, a)
    /\ UNCHANGED <<env, store, req>>
    /\ diagnosePhoneStart(i, loc[i])

\* diagnoseDuplicate, lines 311-320: the answer to the lookup by phone
diagnoseDuplicatePhone(i, a) ==
    /\ pc[i] = "diagnosePhone"
    /\ note(i, a)
    /\ UNCHANGED <<env, store, req>>
    /\ afterDiagnose(i, loc[i])

\* getProfileIdByEmail, lines 241-244, and upsertProfile, lines 217-219
getProfileIdByEmail(i, a) ==
    LET l == loc[i] IN
    /\ pc[i] = "lookup"
    /\ note(i, a)
    /\ UNCHANGED <<env, store, req>>
    /\ IF ~Ok2xx(a)
          THEN reply(i, l, InternalError(l, ErrorMessage(a, "GET", "/api/profiles?filter")))
       ELSE IF a.id = NoId
          THEN reply(i, l, InternalError(l, [Message("Conflict without profile id and lookup failed for")
                                              EXCEPT !.email = l.email]))
       ELSE patchStart(i, l, a.id)

\* Variant: the answer to the PATCH is not looked at.
patchProfile_anyAnswer(i, a) ==
    LET l == loc[i] IN
    /\ pc[i] = "patch"
    /\ note(i, a)
    /\ UNCHANGED <<env, store, req>>
    /\ subscribeStart(i, IF Ok2xx(a)
                            THEN [l EXCEPT !.upsertResult =
                                    [created |-> FALSE, patched |-> TRUE, profileId |-> l.patchId]]
                            ELSE l,
                      "subscribe")

\* Variant: the result names the profile of the submitted email, whichever
\* profile was patched.
patchProfile_resolvesByEmail(i, a) ==
    LET l == loc[i] IN
    /\ pc[i] = "patch"
    /\ note(i, a)
    /\ UNCHANGED <<env, store, req>>
    /\ IF Ok2xx(a)
          THEN subscribeStart(i, [l EXCEPT !.upsertResult =
                                    [created |-> FALSE, patched |-> TRUE, profileId |-> IdOf(l.email)]],
                              "subscribe")
       ELSE reply(i, l, InternalError(l, ErrorMessage(a, "PATCH", "/api/profiles/id")))

\* patchProfile, lines 229-232, and the return of upsertProfile (212, 220)
patchProfile(i, a) ==
    LET l == loc[i] IN
    /\ pc[i] = "patch"
    /\ note(i, a)
    /\ UNCHANGED <<env, store, req>>
    /\ IF Ok2xx(a)
          THEN subscribeStart(i, [l EXCEPT !.upsertResult =
                                    [created |-> FALSE, patched |-> TRUE, profileId |-> l.patchId]],
                              "subscribe")
       ELSE reply(i, l, InternalError(l, ErrorMessage(a, "PATCH", "/api/profiles/id")))

Other(L) == IF L = "A" THEN "B" ELSE "A"

\* Variant: a job that failed is posted once more.
subscribed_retriesOnce(i, L, a) ==
    LET l == loc[i]
        ls == [l EXCEPT !.sub[L] = IF Ok2xx(a) THEN "ok" ELSE "failed"]
        listId == IF L = "A" THEN str(env.KLAVIYO_LIST_1) ELSE str(env.KLAVIYO_LIST_2)
        posted == Cardinality({k \in 1..Len(calls[i]) : calls[i][k].op = "subscribe" /\ calls[i][k].list = listId})
    IN
    /\ pc[i] = "subscribe"
    /\ l.sub[L] = "pending"
    /\ noteJob(i, L, a)
    /\ UNCHANGED <<env, store, req>>
    /\ IF ~Ok2xx(a) /\ posted < 2
          THEN send(i, l, <<subscribeBody(l, listId)>>, "subscribe")
       ELSE IF ~Ok2xx(a)
          THEN reply(i, ls, InternalError(l, ErrorMessage(a, "POST", "/api/profile-subscription-bulk-create-jobs")))
       ELSE IF l.sub[Other(L)] = "ok"
          THEN reply(i, ls, [Response(200, l) EXCEPT
                                !.status = "ok",
                                !.phone_included = l.includeSms,
                                !.subscribed_lists = <<str(env.KLAVIYO_LIST_1), str(env.KLAVIYO_LIST_2)>>,
                                !.upsert = l.upsertResult])
       ELSE send(i, ls, << >>, "subscribe")

\* handler, lines 153-187: one of the two jobs is answered. Promise.all
\* resolves when both are fulfilled and rejects with the first rejection.
subscribed(i, L, a) ==
    LET l == loc[i]
        ls == [l EXCEPT !.sub[L] = IF Ok2xx(a) THEN "ok" ELSE "failed"]
    IN
    /\ pc[i] = "subscribe"
    /\ l.sub[L] = "pending"
    /\ noteJob(i, L, a)
    /\ UNCHANGED <<env, store, req>>
    /\ IF ~Ok2xx(a)
          THEN reply(i, ls, InternalError(l, ErrorMessage(a, "POST", "/api/profile-subscription-bulk-create-jobs")))
       ELSE IF l.sub[Other(L)] = "ok"
          THEN reply(i, ls, [Response(200, l) EXCEPT
                                !.status = "ok",
                                !.phone_included = l.includeSms,
                                !.subscribed_lists = <<str(env.KLAVIYO_LIST_1), str(env.KLAVIYO_LIST_2)>>,
                                !.upsert = l.upsertResult])
       ELSE send(i, ls, << >>, "subscribe")

\* Variant: the late failure of the job still in flight is answered too.
settled_answersAgain(i, L, a) ==
    /\ pc[i] = "done"
    /\ loc[i].sub[L] = "pending"
    /\ loc' = [loc EXCEPT ![i].sub[L] = IF Ok2xx(a) THEN "ok" ELSE "failed"]
    /\ resp' = [resp EXCEPT ![i] = IF Ok2xx(a) THEN @
                                   ELSE Append(@, InternalError(loc[i], ErrorMessage(a, "POST", "/api/profile-subscription-bulk-create-jobs")))]
    /\ noteJob(i, L, a)
    /\ UNCHANGED <<env, store, pc, req, calls>>

\* The job that is still in flight when Promise.all has rejected is answered
\* after the response: nothing awaits it.
settled(i, L, a) ==
    /\ pc[i] = "done"
    /\ loc[i].sub[L] = "pending"
    /\ loc' = [loc EXCEPT ![i].sub[L] = IF Ok2xx(a) THEN "ok" ELSE "failed"]
    /\ noteJob(i, L, a)
    /\ UNCHANGED <<env, store, pc, req, calls, resp>>

(* ------------------- src/unnamed/part_004, lines 19-227 ---------------- *)
\* The same handler without the conflict handling: the profile is created
\* with one call, and klaviyoRequest (lines 302-332) wraps what it throws.

WrappedMessage(a, method, path) ==
    IF a.kind = "http"
        THEN [Message("[klaviyoRequest] failed: Klaviyo") EXCEPT !.method = method, !.path = path, !.status = a.status]
        ELSE [Message("[klaviyoRequest] failed: fetch failed") EXCEPT !.method = method, !.path = path]

basinHandler(i, r) ==
    /\ receive(i, r, "basin")
    /\ entry(i, r, "basinReadRawBody", "basinCreate")

\* lines 57-58
basinReadRawBody(i) ==
    /\ pc[i] = "basinReadRawBody"
    /\ hist' = [hist EXCEPT ![i].bodyRead = TRUE]
    /\ UNCHANGED <<env, store, req>>
    /\ normalize(i, loc[i], fromEntries(req[i].body), "basinCreate")

\* lines 129-145: the answer to POST /api/profiles
basinCreated(i, a) ==
    LET l == loc[i] IN
    /\ pc[i] = "basinCreate"
    /\ store' = IF Ok2xx(a) THEN store \cup {ProfileKey(l.email)} ELSE store
    /\ note(i, a)
    /\ UNCHANGED <<env, req>>
    /\ IF Ok2xx(a)
          THEN subscribeStart(i, l, "basinSubscribe")
          ELSE reply(i, l, InternalError(l, WrappedMessage(a, "POST", "/api/profiles")))

\* lines 184-226: one of the two jobs is answered
basinSubscribed(i, L, a) ==
    LET l == loc[i]
        ls == [l EXCEPT !.sub[L] = IF Ok2xx(a) THEN "ok" ELSE "failed"]
    IN
    /\ pc[i] = "basinSubscribe"
    /\ l.sub[L] = "pending"
    /\ noteJob(i, L, a)
    /\ UNCHANGED <<env, store, req>>
    /\ IF ~Ok2xx(a)
          THEN reply(i, ls, InternalError(l, WrappedMessage(a, "POST", "/api/profile-subscription-bulk-create-jobs")))
       ELSE IF l.sub[Other(L)] = "ok"
          THEN reply(i, ls, [Response(200, l) EXCEPT
                                !.status = "ok",
                                !.phone_included = l.includeSms,
                                !.subscribed_lists = <<str(env.KLAVIYO_LIST_1), str(env.KLAVIYO_LIST_2)>>])
       ELSE send(i, ls, << >>, "basinSubscribe")

basinStep(i) ==
    \/ basinReadRawBody(i)
    \/ \E a \in CreateAnswers(loc[i].email, loc[i].attributes.phone_number, store) : basinCreated(i, a)
    \/ \E L \in {"A", "B"}, a \in SubscribeAnswers(loc[i].includeSms) : basinSubscribed(i, L, a)

(* ------------- src/unnamed/part_002, lines 82-184 (klaviyo-webhook) ---- *)

\* POST /api/lists/{id}/relationships/profiles/
ListAnswers == {Http(204), Http(404), Http(500), NetworkError}

listAdd(l, listId) == [Call("listAdd") EXCEPT !.email = S(l.email), !.id = l.upsertResult.profileId, !.list = listId]

\* lines 83-133: up to the await of the create call.  The fields are read
\* as they come: no trim, and JavaScript truthiness for `!email`, `!marketing`.
webhookHandler(i, r) ==
    LET l == NoLoc
        body == IF Truthy(r.body) THEN r.body ELSE EmptyObj
        email == Get(body, "email")
        marketing == Get(body, "marketing")
    IN
    /\ receive(i, r, "webhook")
    /\ IF r.method # "POST"
          THEN reply(i, l, [Response(405, l) EXCEPT !.error = "Method not allowed"])
       ELSE IF ~Truthy(email)
          THEN reply(i, l, [Response(400, l) EXCEPT !.error = "Missing email"])
       ELSE IF ~Truthy(marketing)
          THEN reply(i, l, [Response(200, l) EXCEPT !.message = Message("User skipped marketing opt-in")])
       ELSE send(i, [l EXCEPT !.email = String(email)],
                 <<[Call("create") EXCEPT !.email = email]>>, "webhookCreate")

\* lines 135-154: the answer to the create call, then the call for list 2
webhookCreated(i, a) ==
    LET l == loc[i] IN
    /\ pc[i] = "webhookCreate"
    /\ store' = IF Ok2xx(a) THEN store \cup {ProfileKey(l.email)} ELSE store
    /\ note(i, a)
    /\ UNCHANGED <<env, req>>
    /\ IF a.kind = "network" \/ ~Ok2xx(a)
          THEN reply(i, l, [Response(500, l) EXCEPT !.error = "Internal server error"])
          ELSE LET lc == [l EXCEPT !.upsertResult = [created |-> TRUE, patched |-> FALSE, profileId |-> a.id]]
               IN  send(i, lc, <<listAdd(lc, String(env.KLAVIYO_LIST_2))>>, "webhookList2")

\* lines 156-170: the answer for list 2 (a failure is logged), then the
\* call for list 1
webhookList2(i, a) ==
    LET l == [loc[i] EXCEPT !.sub.B = IF Ok2xx(a) THEN "ok" ELSE "failed"] IN
    /\ pc[i] = "webhookList2"
    /\ note(i, a)
    /\ UNCHANGED <<env, store, req>>
    /\ IF a.kind = "network"
          THEN reply(i, l, [Response(500, l) EXCEPT !.error = "Internal server error"])
          ELSE send(i, l, <<listAdd(l, String(env.KLAVIYO_LIST_1))>>, "webhookList1")

\* lines 172-183: the answer for list 1 (a failure is logged), then the
\* response
webhookList1(i, a) ==
    LET l == [loc[i] EXCEPT !.sub.A = IF Ok2xx(a) THEN "ok" ELSE "failed"] IN
    /\ pc[i] = "webhookList1"
    /\ note(i, a)
    /\ UNCHANGED <<env, store, req>>
    /\ IF a.kind = "network"
          THEN reply(i, l, [Response(500, l) EXCEPT !.error = "Internal server error"])
          ELSE reply(i, l, [Response(200, l) EXCEPT
                               !.message = Message("Successfully processed and added user to Klaviyo lists")])

webhookStep(i) ==
    \/ \E a \in CreateAnswers(loc[i].email, Undef, store) : webhookCreated(i, a)
    \/ \E a \in ListAnswers : webhookList2(i, a)
    \/ \E a \in ListAnswers : webhookList1(i, a)

(* ------------------- src/unnamed/part_001, lines 16-164 ---------------- *)
\* The handler that subscribes to the two lists one after the other and
\* reports ok, partial or failed.

\* The requests to the handler of src/unnamed/part_001.
Part001Requests ==
    [handler : {"part001"}, method : Methods, authorization : {<< >>, <<"Bearer", " ", "s3cret">>},
     contentType : ContentTypes,
     body : {Null, Obj(Undef, Undef, S(<<"o", "n">>)), Obj(S(EmailA), Undef, S(<<"n", "o">>)),
             Obj(S(EmailA), S(BadPhone), S(<<"c", "h", "e", "c", "k", "e", "d">>))}]

\* POST /api/profile-subscription-bulk-create-jobs: 202 with the job in the
\* body, 202 with an empty body, or a failure.
Part001SubscribeAnswers == {[Http(202) EXCEPT !.id = "01J"], Http(202), Http(500), NetworkError}

\* env(k), line 289
envTrim(v) == IF Truthy(v) THEN trim(String(v)) ELSE << >>

\* isChecked, line 259
part001IsChecked(v) ==
    toLowerCase(str(v)) \in CheckedTokens \cup {<<"c", "h", "e", "c", "k", "e", "d">>}

\* subscribeOnce, lines 168-204: the body of the job and the call
subscribeOnce(l, listId) ==
    [Call("subscribe") EXCEPT !.email = S(l.email), !.emailConsent = TRUE, !.list = listId]

\* lines 139-155: the response after both subscribeOnce have returned
part001Result(l) ==
    LET okLists == {L \in {"A", "B"} : l.jobs[L] # NoId}
        okCount == Cardinality(okLists)
    IN  [Response(200, NoLoc) EXCEPT
            !.status = IF okCount = 2 THEN "ok" ELSE IF okCount = 1 THEN "partial" ELSE "failed",
            !.subscribed_lists = <<envTrim(env.KLAVIYO_LIST_1), envTrim(env.KLAVIYO_LIST_2)>>]

\* lines 48-116: from the payload to the await of the create call
part001Normalize(i, l, payload) ==
    IF payload.t \in {"undefined", "null"}
        THEN reply(i, l, InternalError(l, Message("Cannot read properties of null")))
    ELSE
    LET email == str(Get(payload, "email"))
        phone == str(Get(payload, "phone"))
        attributes == pruneUndefined([email |-> S(email), phone_number |-> S(phone)])
        ln == [l EXCEPT !.email = email, !.phone = phone]
    IN  IF email = << >>
            THEN reply(i, l, [Response(400, NoLoc) EXCEPT !.error = "Missing email"])
        ELSE IF ~part001IsChecked(Get(payload, "marketing"))
            THEN reply(i, ln, [Response(200, NoLoc) EXCEPT !.status = "skipped"])
        ELSE IF \/ envTrim(env.KLAVIYO_API_KEY) = << >>
                \/ envTrim(env.KLAVIYO_LIST_1) = << >>
                \/ envTrim(env.KLAVIYO_LIST_2) = << >>
            THEN reply(i, ln, [Response(500, NoLoc) EXCEPT !.error = "Missing KLAVIYO_API_KEY or list ids"])
        ELSE send(i, [ln EXCEPT !.attributes = attributes],
                  <<[Call("create") EXCEPT !.email = attributes.email,
                                           !.phone_number = attributes.phone_number]>>,
                  "part001Create")

\* lines 17-45: the method gate, the bearer check, the choice of the parser
part001Handler(i, r) ==
    LET l == [NoLoc EXCEPT !.reqId = i]
        requiredBearer == envTrim(env.WEBHOOK_AUTH_BEARER)
        contentType == lowerHeader(r.contentType)
    IN
    /\ receive(i, r, "part001")
    /\ IF r.method # "POST"
          THEN reply(i, l, [Response(405, NoLoc) EXCEPT !.error = "Method Not Allowed"])
       ELSE IF requiredBearer # << >> /\ r.authorization # <<"Bearer", " ">> \o requiredBearer
          THEN reply(i, l, [Response(401, NoLoc) EXCEPT !.error = "Unauthorized"])
       ELSE IF includes(contentType, "application/json")
          THEN part001Normalize(i, l, IF Truthy(r.body) THEN r.body ELSE EmptyObj)
       ELSE IF includes(contentType, "application/x-www-form-urlencoded")
          THEN send(i, l, << >>, "part001ReadRawBody")
       ELSE part001Normalize(i, l, IF r.body.t \in {"object", "null"} THEN r.body ELSE EmptyObj)

\* lines 41-42
part001ReadRawBody(i) ==
    /\ pc[i] = "part001ReadRawBody"
    /\ hist' = [hist EXCEPT ![i].bodyRead = TRUE]
    /\ UNCHANGED <<env, store, req>>
    /\ part001Normalize(i, loc[i], fromEntries(req[i].body))

\* lines 108-129 and 218-256: the answer to POST /api/profiles, then the
\* job for list 1
part001Created(i, a) ==
    LET l == loc[i] IN
    /\ pc[i] = "part001Create"
    /\ store' = IF Ok2xx(a) THEN store \cup {ProfileKey(l.email)} ELSE store
    /\ note(i, a)
    /\ UNCHANGED <<env, req>>
    /\ IF Ok2xx(a)
          THEN send(i, [l EXCEPT !.sub.A = "pending"],
                    <<subscribeOnce(l, envTrim(env.KLAVIYO_LIST_1))>>, "part001List1")
          ELSE reply(i, l, InternalError(l, ErrorMessage(a, "POST", "/api/profiles")))

\* subscribeOnce, lines 197-213: what it returns for answer a, {listId, id}
\* with the job id of the body (null without one) or {listId, error}
part001Returned(l, L, a) ==
    [l EXCEPT !.sub[L] = IF Ok2xx(a) THEN "ok" ELSE "failed",
              !.jobs[L] = IF Ok2xx(a) THEN a.id ELSE NoId]

\* lines 123-137: list 1 is answered, then the job for list 2
part001List1(i, a) ==
    LET l == part001Returned(loc[i], "A", a) IN
    /\ pc[i] = "part001List1"
    /\ noteJob(i, "A", a)
    /\ UNCHANGED <<env, store, req>>
    /\ send(i, [l EXCEPT !.sub.B = "pending"],
            <<subscribeOnce(l, envTrim(env.KLAVIYO_LIST_2))>>, "part001List2")

\* lines 131-155: list 2 is answered, then the response
part001List2(i, a) ==
    LET l == part001Returned(loc[i], "B", a) IN
    /\ pc[i] = "part001List2"
    /\ noteJob(i, "B", a)
    /\ UNCHANGED <<env, store, req>>
    /\ reply(i, l, part001Result(l))

part001Step(i) ==
    \/ part001ReadRawBody(i)
    \/ \E a \in CreateAnswers(loc[i].email, loc[i].attributes.phone_number, store) : part001Created(i, a)
    \/ \E a \in Part001SubscribeAnswers : part001List1(i, a)
    \/ \E a \in Part001SubscribeAnswers : part001List2(i, a)

(* ------ src/unnamed/part_002, lines 186-390 (usebasin klaviyo-subscribe) ---- *)
\* The handler that posts one subscription job per list, both at once, and
\* waits for both (Promise.allSettled).

\* The requests to the usebasin klaviyo-subscribe handler, which reads
\* neither the Authorization nor the Content-Type header.
UsebasinRequests ==
    [handler : {"usebasin"}, method : Methods, authorization : {<< >>},
     contentType : {<<"Application/JSON", "; charset=utf-8">>},
     body : {Undef, Null, S(<<"x">>),
             Obj(Undef, Undef, S(<<"o", "n">>)),
             Obj(S(<< >>), Undef, S(<<"o", "n">>)),
             Obj(S(<<" ", " ">>), S(ValidPhone), S(<<"o", "n">>)),
             Obj(S(EmailA), Undef, S(<<"n", "o">>)),
             Obj(S(EmailA), Undef, N(1)),
             Obj(S(<<" ">> \o EmailC \o <<" ">>), S(BadPhone), S(<<"c", "h", "e", "c", "k", "e", "d">>))}]

\* toBool, lines 193-199
toBool(val) ==
    CASE val.t \in {"undefined", "null"} -> FALSE
      [] val.t = "boolean" -> val.b
      [] val.t = "number" -> val.n = 1
      [] OTHER -> toLowerCase(trim(String(val))) \in
                    {<<"1">>, <<"t", "r", "u", "e">>, <<"y", "e", "s">>, <<"o", "n">>,
                     <<"c", "h", "e", "c", "k", "e", "d">>}

\* parseBody, lines 202-215: no body is {}, an object is itself, and text
\* that is neither JSON nor a form with an email field has no email.
parseBody(body) ==
    IF ~Truthy(body) THEN EmptyObj
    ELSE IF body.t = "object" THEN body
    ELSE EmptyObj

\* res.status(code).json({ok, skipped, reason, error})
UsebasinResponse(code, ok, skipped, reason, error) ==
    [ok |-> ok, skipped |-> skipped, reason |-> reason] @@ [Response(code, NoLoc) EXCEPT !.error = error]

\* buildProfileAttributes, lines 226-274, and subscribeToList, lines 277-308
subscribeToList(payload, listId) ==
    LET phone == IF Get(payload, "phone").t = "string" THEN trim(Get(payload, "phone").s) ELSE << >> IN
    [Call("subscribe") EXCEPT
        !.email = S(trim(Get(payload, "email").s)),
        !.phone_number = IF phone # << >> THEN S(phone) ELSE Undef,
        !.emailConsent = TRUE,
        !.list = listId]

\* lines 323-372: up to the await of Promise.allSettled
usebasinHandler(i, r) ==
    LET l == NoLoc
        payload == parseBody(r.body)
        email == Get(payload, "email")
    IN
    /\ receive(i, r, "usebasin")
    /\ IF r.method # "POST"
          THEN reply(i, l, UsebasinResponse(405, FALSE, FALSE, "", "Method not allowed"))
       ELSE IF ~Truthy(env.KLAVIYO_API_KEY) \/ ~Truthy(env.KLAVIYO_LIST_1) \/ ~Truthy(env.KLAVIYO_LIST_2)
          THEN reply(i, l, UsebasinResponse(500, FALSE, FALSE, "", "Server not configured"))
       ELSE IF ~Truthy(email) \/ trim(String(email)) = << >>
          THEN reply(i, l, UsebasinResponse(200, TRUE, TRUE, "missing_email", ""))
       ELSE IF ~toBool(Get(payload, "marketing"))
          THEN reply(i, l, UsebasinResponse(200, TRUE, TRUE, "no_marketing_opt_in", ""))
       ELSE send(i, [l EXCEPT !.email = trim(String(email)), !.sub = [A |-> "pending", B |-> "pending"]],
                 <<subscribeToList(payload, String(env.KLAVIYO_LIST_1)),
                   subscribeToList(payload, String(env.KLAVIYO_LIST_2))>>,
                 "usebasinSubscribe")

\* POST /api/profile-subscription-bulk-create-jobs as subscribeToList reads
\* it: 202 is success, any other status is not, and fetch may reject.
UsebasinAnswers == {Http(202), Http(200), Http(500), NetworkError}

\* lines 311-319 and 369-385: one of the two jobs settles; once both have,
\* the response is 200 when both were answered 202, and 207 otherwise.
usebasinSettled(i, L, a) ==
    LET l == loc[i]
        ok == a.kind = "http" /\ a.status = 202
        ls == [l EXCEPT !.sub[L] = IF ok THEN "ok" ELSE "failed"]
        both == ls.sub.A = "ok" /\ ls.sub.B = "ok"
    IN
    /\ pc[i] = "usebasinSubscribe"
    /\ l.sub[L] = "pending"
    /\ noteJob(i, L, a)
    /\ UNCHANGED <<env, store, req>>
    /\ IF l.sub[Other(L)] = "pending"
          THEN send(i, ls, << >>, "usebasinSubscribe")
          ELSE reply(i, ls, UsebasinResponse(IF both THEN 200 ELSE 207, both, FALSE, "", ""))

usebasinStep(i) ==
    \E L \in {"A", "B"}, a \in UsebasinAnswers : usebasinSettled(i, L, a)

(* ------------------- src/unnamed/part_000, lines 177-358 --------------- *)
\* The handler that creates the profile, adds it to each list, then posts
\* one subscription job; the answers to the list and subscription calls are
\* logged and not acted upon.

Phone11 == <<"1", "5", "5", "5", "1", "2", "3", "4", "5", "6", "7">>

\* The requests to the second handler of src/unnamed/part_000, which reads
\* neither the Authorization nor the Content-Type header.
Part000Requests ==
    [handler : {"part000"}, method : Methods, authorization : {<< >>},
     contentType : {<<"Application/JSON", "; charset=utf-8">>},
     body : {Undef, S(<<"x">>),
             Obj(Undef, Undef, S(<<"o", "n">>)),
             Obj(S(EmailA), Undef, S(<<"n", "o">>)),
             Obj(S(EmailA), Undef, S(<<"O", "N">>)),
             Obj(S(EmailA), S(ValidPhone), S(<<"o", "n">>)),
             Obj(S(EmailC), S(Phone11), B(TRUE))}]

\* lines 198-203: strict equality with true, "true", "on", "1", "yes"
marketingOptIn(marketing) ==
    \/ marketing = B(TRUE)
    \/ marketing \in {S(<<"t", "r", "u", "e">>), S(<<"o", "n">>), S(<<"1">>), S(<<"y", "e", "s">>)}

\* lines 300-306: the digits of the phone; SMS when they are 11 and begin with 1
sanitizedPhone(phone) ==
    IF Truthy(phone) /\ phone.t = "string" THEN SelectSeq(phone.s, LAMBDA c : c \in Digits) ELSE << >>

smsEligible(phone) ==
    LET digits == sanitizedPhone(phone) IN Len(digits) = 11 /\ digits[1] = "1"

\* The catch block, lines 354-357
part000ServerError(l) == [Response(500, l) EXCEPT !.error = "Internal Server Error"]

\* line 353
part000Processed(l) == [Response(200, l) EXCEPT !.message = Message("Processed successfully")]

\* lines 177-246: up to the await of the create call.  Destructuring a body
\* that is undefined or null throws; the fields are read as they come.
part000Handler(i, r) ==
    LET l == NoLoc
        email == Get(r.body, "email")
        phone == Get(r.body, "phone")
    IN
    /\ receive(i, r, "part000")
    /\ IF r.method # "POST"
          THEN reply(i, l, [Response(405, l) EXCEPT !.error = "Method not allowed"])
       ELSE IF r.body.t \in {"undefined", "null"}
          THEN reply(i, l, part000ServerError(l))
       ELSE IF ~Truthy(email)
          THEN reply(i, l, [Response(400, l) EXCEPT !.error = "Missing email field"])
       ELSE IF ~marketingOptIn(Get(r.body, "marketing"))
          THEN reply(i, l, part000Processed(l))
       ELSE send(i, [l EXCEPT !.email = String(email), !.includeSms = smsEligible(phone)],
                 <<[Call("create") EXCEPT !.email = email,
                                          !.phone_number = IF Truthy(phone) THEN phone ELSE S(<< >>)]>>,
                 "part000Create")

\* lines 248-281: the answer to the create call, then the call for the
\* first list
part000Created(i, a) ==
    LET l == loc[i] IN
    /\ pc[i] = "part000Create"
    /\ store' = IF Ok2xx(a) THEN store \cup {ProfileKey(l.email)} ELSE store
    /\ note(i, a)
    /\ UNCHANGED <<env, req>>
    /\ IF a.kind = "network"
          THEN reply(i, l, part000ServerError(l))
       ELSE IF ~Ok2xx(a)
          THEN reply(i, l, [Response(a.status, l) EXCEPT !.error = "Failed to create profile"])
       ELSE LET lc == [l EXCEPT !.upsertResult = [created |-> TRUE, patched |-> FALSE, profileId |-> a.id]]
            IN  send(i, lc, <<listAdd(lc, String(env.KLAVIYO_LIST_1))>>, "part000List1")

\* lines 265-290: the answer for the first list (204 or not, the loop goes
\* on), then the call for the second list
part000List1(i, a) ==
    LET l == [loc[i] EXCEPT !.sub.A = IF Ok2xx(a) THEN "ok" ELSE "failed"] IN
    /\ pc[i] = "part000List1"
    /\ note(i, a)
    /\ UNCHANGED <<env, store, req>>
    /\ IF a.kind = "network"
          THEN reply(i, l, part000ServerError(l))
          ELSE send(i, l, <<listAdd(l, String(env.KLAVIYO_LIST_2))>>, "part000List2")

\* lines 282-341: the answer for the second list, then the subscription job
part000List2(i, a) ==
    LET l == [loc[i] EXCEPT !.sub.B = IF Ok2xx(a) THEN "ok" ELSE "failed"] IN
    /\ pc[i] = "part000List2"
    /\ note(i, a)
    /\ UNCHANGED <<env, store, req>>
    /\ IF a.kind = "network"
          THEN reply(i, l, part000ServerError(l))
          ELSE send(i, l,
                    <<[Call("subscribe") EXCEPT !.id = l.upsertResult.profileId, !.emailConsent = TRUE,
                                                !.sms = l.includeSms, !.list = String(env.KLAVIYO_LIST_1)]>>,
                    "part000Subscribe")

\* lines 343-357: the answer to the subscription job is logged, then the
\* response
part000Subscribed(i, a) ==
    LET l == loc[i] IN
    /\ pc[i] = "part000Subscribe"
    /\ note(i, a)
    /\ UNCHANGED <<env, store, req>>
    /\ IF a.kind = "network"
          THEN reply(i, l, part000ServerError(l))
          ELSE reply(i, l, part000Processed(l))

part000Step(i) ==
    \/ \E a \in CreateAnswers(loc[i].email, Undef, store) : part000Created(i, a)
    \/ \E a \in ListAnswers : part000List1(i, a)
    \/ \E a \in ListAnswers : part000List2(i, a)
    \/ \E a \in SubscribeAnswers(loc[i].includeSms) : part000Subscribed(i, a)

\* The steps of invocation i of the handler of src/api/klaviyo.js
klaviyoStep(i) ==
    \/ readRawBody(i)
    \/ \E a \in CreateAnswers(loc[i].email, loc[i].attributes.phone_number, store) : upsertProfile(i, a)
    \/ \E a \in LookupAnswers(loc[i].email, store) : diagnoseDuplicateEmail(i, a)
    \/ \E a \in PhoneLookupAnswers : diagnoseDuplicatePhone(i, a)
    \/ \E a \in LookupAnswers(loc[i].email, store) : getProfileIdByEmail(i, a)
    \/ \E a \in PatchAnswers : patchProfile(i, a)
    \/ \E L \in {"A", "B"}, a \in SubscribeAnswers(loc[i].includeSms) : subscribed(i, L, a)
    \/ \E L \in {"A", "B"}, a \in SubscribeAnswers(loc[i].includeSms) : settled(i, L, a)

\* The requests that may reach invocation i: it serves one.
Incoming(i, R) == IF pc[i] = "idle" THEN R ELSE {}

\* One invocation, any request, any deployment.
Next ==
    \/ \E r \in Incoming(1, Requests) : handler(1, r)
    \/ klaviyoStep(1)
    \/ \E r \in Incoming(1, BasinRequests) : basinHandler(1, r)
    \/ basinStep(1)
    \/ \E r \in Incoming(1, WebhookRequests) : webhookHandler(1, r)
    \/ webhookStep(1)
    \/ \E r \in Incoming(1, Part001Requests) : part001Handler(1, r)
    \/ part001Step(1)
    \/ \E r \in Incoming(1, UsebasinRequests) : usebasinHandler(1, r)
    \/ usebasinStep(1)
    \/ \E r \in Incoming(1, Part000Requests) : part000Handler(1, r)
    \/ part000Step(1)

Spec == Init /\ [][Next]_vars

\* Invocations of one deployment with every variable set, interleaved at
\* their awaits.
InitConc == InitWith({FullEnv}, {{}})

NextConc ==
    \E i \in Invocations :
        \/ \E r \in Incoming(i, ConcRequests) : handler(i, r)
        \/ klaviyoStep(i)

SpecConc == InitConc /\ [][NextConc]_vars

\* Two invocations in one deployment, with requests of every kind that ends
\* in an error response.
PairRequests ==
    [handler : {"klaviyo"}, method : Methods, authorization : {<< >>},
     contentType : {<< >>, <<"application/x-www-form-urlencoded">>},
     body : {Null, Obj(Undef, Undef, S(<<"o", "n">>)), Obj(S(EmailA), S(ValidPhone), S(<<"o", "n">>))}]

InitPair ==
    InitWith({FullEnv,
              [FullEnv EXCEPT !.WEBHOOK_AUTH_BEARER = S(Secret)],
              [FullEnv EXCEPT !.KLAVIYO_API_KEY = Undef],
              [FullEnv EXCEPT !.KLAVIYO_LIST_1 = Undef]},
             {{}})

NextPair ==
    \E i \in Invocations :
        \/ \E r \in Incoming(i, PairRequests) : handler(i, r)
        \/ klaviyoStep(i)

SpecPair == InitPair /\ [][NextPair]_vars

\* One invocation of the handler of src/api/klaviyo.js whose awaits all
\* settle: the request stream ends, and fetch resolves or rejects for every
\* outbound call.
SettlingRequests ==
    [handler : {"klaviyo"}, method : Methods, authorization : {<< >>},
     contentType : {<<"Application/JSON", "; charset=utf-8">>, <<"application/x-www-form-urlencoded">>},
     body : {Null,
             Obj(Undef, Undef, S(<<"o", "n">>)),
             Obj(S(EmailA), Undef, S(<<"n", "o">>)),
             Obj(S(EmailA), Undef, S(<<"o", "n">>)),
             Obj(S(EmailA), S(ValidPhone), B(TRUE))}]

InitSettling ==
    InitWith({FullEnv, [FullEnv EXCEPT !.KLAVIYO_API_KEY = Undef], [FullEnv EXCEPT !.KLAVIYO_LIST_1 = Undef]},
             {{}, {EmailA}})

NextSettling ==
    \/ \E r \in Incoming(1, SettlingRequests) : handler(1, r)
    \/ klaviyoStep(1)

SpecSettling == InitSettling /\ [][NextSettling]_vars /\ WF_vars(klaviyoStep(1))

\* One invocation of the handler of src/api/klaviyo.js with phone numbers at
\* both ends of the range of isE164Phone: one digit, two digits, fifteen
\* digits, sixteen digits, a leading zero, no digit, a letter.
BoundaryPhones ==
    {<<"+", "5">>,
     <<"+", "5", "0">>,
     <<"+", "1", "2", "3", "4", "5", "6", "7", "8", "9", "0", "1", "2", "3", "4", "5">>,
     <<"+", "1", "2", "3", "4", "5", "6", "7", "8", "9", "0", "1", "2", "3", "4", "5", "6">>,
     <<"+", "0", "5">>,
     <<"+">>,
     <<"5", "5">>,
     <<"+", "5", "x">>,
     <<" ">> \o ValidPhone}

PhoneRequests ==
    [handler : {"klaviyo"}, method : {"POST"}, authorization : {<< >>},
     contentType : {<<"Application/JSON", "; charset=utf-8">>, <<"application/x-www-form-urlencoded">>},
     body : {Obj(S(EmailA), S(p), S(<<"o", "n">>)) : p \in BoundaryPhones}]

InitPhone == InitWith({FullEnv}, {{}, {EmailA}})

NextPhone ==
    \/ \E r \in Incoming(1, PhoneRequests) : handler(1, r)
    \/ klaviyoStep(1)

SpecPhone == InitPhone /\ [][NextPhone]_vars

(* ----------------------------- properties ----------------------------- *)

Served(i) == pc[i] # "idle"
Done(i) == pc[i] = "done"
Main(i) == req[i].handler = "klaviyo"

\* The request is a POST that the bearer check lets through.
PassesGate(i) ==
    /\ req[i].method = "POST"
    /\ \/ ~Truthy(env.WEBHOOK_AUTH_BEARER)
       \/ req[i].authorization = <<"Bearer", " ">> \o env.WEBHOOK_AUTH_BEARER.s

\* The field as it was submitted; undefined when the body is no submission.
Submitted(i, key) == IF req[i].body.t = "object" THEN req[i].body.o[key] ELSE Undef

\* Text with a character that is not white space.
NonBlank(v) == v.t = "string" /\ \E k \in 1..Len(v.s) : v.s[k] \notin WhiteSpace

\* The affirmative opt-in signals: on, true, 1, yes, y, checked in any case,
\* and the boolean true.
AffirmativeTokens ==
    {<<"o", "n">>, <<"t", "r", "u", "e">>, <<"1">>, <<"y", "e", "s">>, <<"y">>,
     <<"c", "h", "e", "c", "k", "e", "d">>}

Affirmative(v) ==
    /\ v.t \notin {"undefined", "null"}
    /\ toLowerCase(trim(String(v))) \in AffirmativeTokens

CallsOf(i, op) == {k \in 1..Len(calls[i]) : calls[i][k].op = op}

Replied(i, code) == Len(resp[i]) = 1 /\ resp[i][1].code = code

\* C1: a POST that passes the auth gate and carries a non-empty email, with
\* the marketing field absent or not an affirmative token, makes no outbound
\* call and is answered 200 with status "skipped".
C1_NoOptInIsSkipped ==
    \A i \in Invocations :
        (/\ Main(i) /\ Served(i) /\ PassesGate(i)
         /\ NonBlank(Submitted(i, "email"))
         /\ ~Affirmative(Submitted(i, "marketing")))
        => /\ calls[i] = << >>
           /\ Done(i) => (Replied(i, 200) /\ resp[i][1].status = "skipped")

C1_Witness ==
    \E i \in Invocations :
        /\ Main(i) /\ Done(i) /\ PassesGate(i)
        /\ NonBlank(Submitted(i, "email"))
        /\ Submitted(i, "marketing") = S(<<"n", "o">>)
        /\ Replied(i, 200) /\ resp[i][1].status = "skipped"

\* C3: a POST that passes the auth gate and whose email is absent, null,
\* empty or white space is answered 400 "Missing email" without an outbound
\* call, whatever else it carries.
C3_MissingEmailIs400 ==
    \A i \in Invocations :
        (Main(i) /\ Done(i) /\ PassesGate(i) /\ ~NonBlank(Submitted(i, "email")))
        => /\ calls[i] = << >>
           /\ Replied(i, 400) /\ resp[i][1].error = "Missing email"

\* C5: when create answers 409 and names the duplicate profile, that profile
\* is patched and the invocation makes no lookup by email.
C5_DuplicateIdNeedsNoLookup ==
    \A i \in Invocations :
        (Main(i) /\ loc[i].duplicateId # NoId)
        => /\ CallsOf(i, "lookupByEmail") = {}
           /\ \A k \in CallsOf(i, "patch") : calls[i][k].id = loc[i].duplicateId

\* C6: when create answers 409 without naming the duplicate, the invocation
\* makes exactly one lookup by email and patches the profile it resolved.
C6_OneLookupThenPatch ==
    \A i \in Invocations :
        (Main(i) /\ hist[i].conflict /\ loc[i].duplicateId = NoId /\ CallsOf(i, "patch") # {})
        => /\ Cardinality(CallsOf(i, "lookupByEmail")) = 1
           /\ \A k \in CallsOf(i, "patch") : calls[i][k].id = IdOf(loc[i].email)

\* C7: a subscription job that grants SMS consent and is refused for the
\* region is posted again for the same list without SMS, and the response
\* reports the outcome of that second job, not the refusal.
C7_RegionRefusalIsRetried ==
    \A i \in Invocations :
        \A L \in {"A", "B"} :
            (Main(i) /\ Done(i) /\ L \in hist[i].region)
            => /\ \E k \in CallsOf(i, "subscribe") :
                    /\ calls[i][k].list = (IF L = "A" THEN str(env.KLAVIYO_LIST_1) ELSE str(env.KLAVIYO_LIST_2))
                    /\ ~calls[i][k].sms
               /\ Len(resp[i]) = 1
               /\ resp[i][1].message.status # 400

\* C2: the klaviyo-webhook handler issues a profile-create or list call only
\* for a submission whose marketing value is an affirmative token.
C2_WebhookCallsOnlyOnOptIn ==
    \A i \in Invocations :
        (req[i].handler = "webhook" /\ calls[i] # << >>)
        => Affirmative(Submitted(i, "marketing"))

\* C8: in the handlers of src/api/klaviyo.js and src/unnamed/part_004 a phone
\* that fails the E.164 check travels in no outbound call, and the
\* submission is processed all the same: the profile is created.
C8_InvalidPhoneIsDropped ==
    \A i \in Invocations :
        (/\ req[i].handler \in {"klaviyo", "basin"}
         /\ ~isE164Phone(Submitted(i, "phone")))
        => /\ \A k \in 1..Len(calls[i]) : calls[i][k].phone_number = Undef
           /\ (/\ PassesGate(i) /\ NonBlank(Submitted(i, "email"))
               /\ isChecked(Submitted(i, "marketing")) /\ ~keyMissing
               /\ pc[i] \notin {"idle", "readRawBody", "basinReadRawBody"})
              => /\ calls[i] # << >>
                 /\ calls[i][1].op = "create"
                 /\ Done(i) => resp[i][1].code \notin {400, 401, 405}

C8_Witness ==
    \E i \in Invocations :
        /\ Main(i) /\ Done(i)
        /\ Submitted(i, "phone") = S(BadPhone)
        /\ Replied(i, 200) /\ resp[i][1].status = "ok"
        /\ Len(calls[i]) = 3

\* Every upstream call of the invocation was answered with a 2xx status.
UpstreamSucceeds(i) == ~hist[i].fault /\ ~hist[i].conflict

\* C9: an opted-in submission with a valid email, two configured lists and
\* no failing upstream call makes exactly two subscription calls, one per
\* list, and the response names both lists.
C9_OneJobPerList ==
    \A i \in Invocations :
        (/\ Main(i) /\ Done(i) /\ PassesGate(i)
         /\ NonBlank(Submitted(i, "email"))
         /\ isChecked(Submitted(i, "marketing"))
         /\ ~keyMissing
         /\ str(env.KLAVIYO_LIST_1) # << >> /\ str(env.KLAVIYO_LIST_2) # << >>
         /\ UpstreamSucceeds(i))
        => /\ Cardinality(CallsOf(i, "subscribe")) = 2
           /\ \A list \in {str(env.KLAVIYO_LIST_1), str(env.KLAVIYO_LIST_2)} :
                Cardinality({k \in CallsOf(i, "subscribe") : calls[i][k].list = list}) = 1
           /\ Replied(i, 200) /\ resp[i][1].status = "ok"
           /\ resp[i][1].subscribed_lists = <<str(env.KLAVIYO_LIST_1), str(env.KLAVIYO_LIST_2)>>

C9_Witness ==
    \E i \in Invocations :
        /\ Main(i) /\ Done(i) /\ ~hist[i].fault /\ ~hist[i].conflict
        /\ Submitted(i, "marketing") = S(<<"o", "n">>)
        /\ Cardinality(CallsOf(i, "subscribe")) = 2
        /\ Replied(i, 200) /\ resp[i][1].subscribed_lists = <<ListA, ListB>>

\* C4: of two invocations served one after the other with the same opted-in
\* submission, against a contacts API that answers create with 409 exactly
\* when the email owns a profile and fails no call, the first creates the
\* profile, the second patches it, and both answer ok; no two invocations
\* for one email ever both report a created profile.
C4_SecondSubmissionPatches ==
    \A i, j \in Invocations :
        /\ (/\ i # j /\ Done(i) /\ Done(j) /\ i \in hist[j].after
            /\ req[i].body = req[j].body
            /\ ~hist[i].fault /\ ~hist[j].fault /\ ~hist[i].conflict)
           => /\ Replied(i, 200) /\ resp[i][1].status = "ok"
              /\ resp[i][1].upsert.created /\ ~resp[i][1].upsert.patched
              /\ Replied(j, 200) /\ resp[j][1].status = "ok"
              /\ resp[j][1].upsert.patched /\ ~resp[j][1].upsert.created
              /\ resp[j][1].upsert.profileId = resp[i][1].upsert.profileId
        /\ (i # j /\ loc[i].email = loc[j].email)
           => ~(loc[i].upsertResult.created /\ loc[j].upsertResult.created)

C4_Witness ==
    \E i, j \in Invocations :
        /\ i # j /\ Done(i) /\ Done(j) /\ i \in hist[j].after
        /\ req[i].body = req[j].body
        /\ resp[i][1].upsert.created /\ resp[j][1].upsert.patched
        /\ resp[i][1].status = "ok" /\ resp[j][1].status = "ok"

\* What belongs to invocation i.
Own(i) == <<pc[i], req[i], loc[i], calls[i], resp[i], hist[i]>>

\* The calls and the response of an invocation are made of its own request
\* and of the answers to its own calls.
OwnData(i) ==
    /\ \A k \in 1..Len(calls[i]) :
        /\ calls[i][k].email \in {Undef, S(str(Submitted(i, "email")))}
        /\ calls[i][k].phone_number \in {Undef, S(str(Submitted(i, "phone")))}
        /\ calls[i][k].op = "patch" => calls[i][k].id \in {loc[i].duplicateId, IdOf(str(Submitted(i, "email")))}
    /\ \A k \in 1..Len(resp[i]) :
        /\ resp[i][k].reqId = i
        /\ resp[i][k].status = "ok" <=> (loc[i].sub.A = "ok" /\ loc[i].sub.B = "ok")
        /\ resp[i][k].upsert \in {NoUpsert, loc[i].upsertResult}
        /\ resp[i][k].code = 500 => (hist[i].fault \/ hist[i].conflict)

\* C10: two invocations of the handler of src/api/klaviyo.js, interleaved at
\* their awaits, do not interfere: a step writes the state of one invocation
\* only, and the calls and the response of each are made of its own request
\* and its own answers.
C10_NoInterference ==
    /\ [](\A i \in Invocations : OwnData(i))
    /\ [][\A i, j \in Invocations : (i # j /\ Own(i)' # Own(i)) => Own(j)' = Own(j)]_vars

C10_Witness ==
    \E i, j \in Invocations :
        /\ i # j /\ Done(i) /\ Done(j)
        /\ i \notin hist[j].after /\ j \notin hist[i].after
        /\ loc[i].email # loc[j].email
        /\ resp[i][1].status = "ok" /\ resp[j][1].status = "ok"

\* C11: a request to the handler of src/api/klaviyo.js whose method is not
\* POST is answered 405 at once: the request stream is not read and no call
\* goes out, whatever the Authorization header, the body and the deployment.
C11_NonPostIs405 ==
    \A i \in Invocations :
        (Main(i) /\ Served(i) /\ req[i].method # "POST")
        => /\ Done(i)
           /\ Replied(i, 405) /\ resp[i][1].error = "Method Not Allowed"
           /\ calls[i] = << >>
           /\ ~hist[i].bodyRead

C11_Witness ==
    \E i \in Invocations :
        /\ Main(i) /\ req[i].method = "GET"
        /\ Truthy(env.WEBHOOK_AUTH_BEARER)
        /\ req[i].authorization = <<"Bearer", " ", "wrong">>
        /\ req[i].body.t = "object"
        /\ Replied(i, 405)

\* The Authorization header is the text "Bearer <secret>".
ExactBearer(i) ==
    /\ Truthy(env.WEBHOOK_AUTH_BEARER)
    /\ Len(req[i].authorization) = 3
    /\ req[i].authorization[1] = "Bearer"
    /\ req[i].authorization[2] = " "
    /\ <<req[i].authorization[3]>> = env.WEBHOOK_AUTH_BEARER.s

\* C12: with WEBHOOK_AUTH_BEARER configured, a POST whose Authorization
\* header is not exactly "Bearer <secret>" is answered 401 with no call and
\* no read of the request stream, and one with the exact header goes on;
\* with no secret configured every POST goes on.
C12_BearerGate ==
    \A i \in Invocations :
        (Main(i) /\ Served(i) /\ req[i].method = "POST")
        => IF Truthy(env.WEBHOOK_AUTH_BEARER) /\ ~ExactBearer(i)
              THEN /\ Done(i)
                   /\ Replied(i, 401) /\ resp[i][1].error = "Unauthorized"
                   /\ calls[i] = << >>
                   /\ ~hist[i].bodyRead
              ELSE /\ \A k \in 1..Len(resp[i]) : resp[i][k].code \notin {401, 405}
                   /\ (/\ NonBlank(Submitted(i, "email"))
                       /\ isChecked(Submitted(i, "marketing"))
                       /\ ~keyMissing
                       /\ pc[i] # "readRawBody")
                      => calls[i] # << >>

C12_Witness ==
    \E i \in Invocations :
        /\ Main(i) /\ req[i].method = "POST"
        /\ Truthy(env.WEBHOOK_AUTH_BEARER)
        /\ req[i].authorization = <<"bearer", " ", "s3cret">>
        /\ Replied(i, 401)

\* The calls of invocation i with operation op that come before call k.
Before(i, k, op) == {j \in CallsOf(i, op) : j < k}

\* C13: in the handler of src/api/klaviyo.js a subscription call is issued
\* only after the profile upsert of the same invocation has completed: the
\* create call answered 2xx, or answered 409 and followed by a PATCH answered
\* 2xx.  An invocation whose upsert has not completed has no subscription call.
C13_UpsertBeforeSubscribe ==
    \A i \in Invocations :
        Main(i) =>
            \A k \in CallsOf(i, "subscribe") :
                /\ Before(i, k, "create") # {}
                /\ \/ /\ loc[i].upsertResult.created
                      /\ ~hist[i].conflict
                      /\ Before(i, k, "patch") = {}
                   \/ /\ loc[i].upsertResult.patched
                      /\ hist[i].conflict
                      /\ \E j \in Before(i, k, "patch") :
                            /\ Before(i, j, "create") # {}
                            /\ calls[i][j].id = loc[i].upsertResult.profileId

C13_Witness ==
    \E i \in Invocations :
        /\ Main(i) /\ hist[i].conflict
        /\ loc[i].upsertResult.patched
        /\ Cardinality(CallsOf(i, "subscribe")) = 2
        /\ Cardinality(CallsOf(i, "patch")) = 1

\* C14: an invocation of the handler of src/api/klaviyo.js ends with exactly
\* one response, whatever the outcome of each upstream call: it never
\* responds twice, it is done exactly when it has responded, and once it has
\* been invoked it does respond.
C14_ExactlyOneResponse ==
    /\ [](\A i \in Invocations : Len(resp[i]) <= 1 /\ (Done(i) <=> Len(resp[i]) = 1))
    /\ \A i \in Invocations : (Main(i) ~> (Done(i) /\ Len(resp[i]) = 1))

C14_Witness ==
    \E i \in Invocations :
        /\ Main(i) /\ Done(i) /\ hist[i].conflict
        /\ loc[i].sub.A = "failed" /\ loc[i].sub.B = "failed"
        /\ Len(resp[i]) = 1

\* The seven ways the handler answers.
ResponsePaths ==
    {<<405, "Method Not Allowed", "">>, <<401, "Unauthorized", "">>, <<400, "Missing email", "">>,
     <<200, "", "skipped">>, <<500, "Missing KLAVIYO_LIST_A_ID or KLAVIYO_LIST_B_ID", "">>,
     <<200, "", "ok">>, <<500, "Internal Error", "">>}

\* C15: every response of the handler of src/api/klaviyo.js carries in its
\* body the reqId generated when the invocation began, and that is the value
\* of the X-Request-ID header of the response.
C15_ReqIdInEveryResponse ==
    \A i \in Invocations :
        Main(i) =>
            \A k \in 1..Len(resp[i]) :
                /\ <<resp[i][k].code, resp[i][k].error, resp[i][k].status>> \in ResponsePaths
                /\ resp[i][k].reqId = i
                /\ resp[i][k].reqId = resp[i][k].xRequestId

C15_Witness ==
    \E i \in Invocations :
        /\ Main(i) /\ Replied(i, 500) /\ resp[i][1].error = "Internal Error"
        /\ hist[i].fault
        /\ resp[i][1].reqId = i /\ resp[i][1].xRequestId = i

\* The response of invocation i is an error.
IsError(i) == Len(resp[i]) = 1 /\ resp[i][1].code >= 400

\* The class of the error of invocation i, from what caused it: the method,
\* the bearer check, an upstream call that went out and stopped the upsert or
\* a job, the list ids missing after the upsert, a body that cannot be read
\* (the exception nothing catches before the top level), the missing email,
\* the missing API key.
ErrorClass(i) ==
    IF req[i].method # "POST" THEN "method not allowed"
    ELSE IF ~PassesGate(i) THEN "unauthorized"
    ELSE IF calls[i] # << >>
        THEN IF CallsOf(i, "subscribe") = {} /\ loc[i].upsertResult # NoUpsert
                THEN "missing server configuration"
                ELSE "upstream error"
    ELSE IF req[i].body.t = "null" /\ ~hist[i].bodyRead THEN "internal error"
    ELSE IF ~NonBlank(Submitted(i, "email")) THEN "missing email"
    ELSE "missing server configuration"

\* C16: two error responses of the handler of src/api/klaviyo.js whose errors
\* are of different classes differ in status code or in reason string.
C16_ErrorClassesDistinct ==
    \A i, j \in Invocations :
        (/\ Main(i) /\ Main(j) /\ IsError(i) /\ IsError(j)
         /\ ErrorClass(i) # ErrorClass(j))
        => <<resp[i][1].code, resp[i][1].error>> # <<resp[j][1].code, resp[j][1].error>>

\* C17: isChecked of src/api/klaviyo.js and src/unnamed/part_004 is true
\* exactly for the values that read on, true, 1, yes, y or checked in any
\* case, and for the boolean true.
C17_IsCheckedTokens ==
    \A i \in Invocations :
        (req[i].handler \in {"klaviyo", "basin"} /\ Served(i))
        => (isChecked(Submitted(i, "marketing")) <=> Affirmative(Submitted(i, "marketing")))

\* The catch block of invocation i has run: its response is the one it sends.
Caught(i) == Replied(i, 500) /\ resp[i][1].error = "Internal Error"

\* C18: a log record of the handler of src/api/klaviyo.js holds no email as
\* it was submitted, the record of the unhandled-error path after a failed
\* conflict lookup included.
C18_NoRawEmailInLogs ==
    \A i \in Invocations :
        (Main(i) /\ Caught(i))
        => unhandledError(loc[i], resp[i][1].message).message.email = << >>

\* C20: the handler of src/api/klaviyo.js waits for both subscription jobs:
\* when it responds, neither job is still in flight.
C20_BothJobsAwaited ==
    \A i \in Invocations :
        (Main(i) /\ Len(resp[i]) = 1)
        => (loc[i].sub.A # "pending" /\ loc[i].sub.B # "pending")

\* The jobs of invocation i that the contacts API answered with a 2xx status.
Succeeded(i) == {L \in {"A", "B"} : loc[i].sub[L] = "ok"}

\* C19: after a successful create, the handler of src/unnamed/part_001
\* answers ok exactly when both subscription calls were answered 2xx,
\* partial exactly when one was, failed exactly when none was.
C19_StatusCountsSuccesses ==
    \A i \in Invocations :
        (/\ req[i].handler = "part001" /\ Done(i)
         /\ Cardinality(CallsOf(i, "subscribe")) = 2)
        => /\ Replied(i, 200)
           /\ resp[i][1].status = "ok" <=> Cardinality(Succeeded(i)) = 2
           /\ resp[i][1].status = "partial" <=> Cardinality(Succeeded(i)) = 1
           /\ resp[i][1].status = "failed" <=> Cardinality(Succeeded(i)) = 0

\* The deployment sets the API key and both list ids.
Configured ==
    Truthy(env.KLAVIYO_API_KEY) /\ Truthy(env.KLAVIYO_LIST_1) /\ Truthy(env.KLAVIYO_LIST_2)

\* C21: in a configured deployment the usebasin klaviyo-subscribe handler
\* answers a POST whose email is absent or empty after trimming with status
\* 400, with no outbound call.
C21_UsebasinMissingEmailIs400 ==
    \A i \in Invocations :
        (/\ req[i].handler = "usebasin" /\ Done(i) /\ req[i].method = "POST"
         /\ Configured
         /\ ~NonBlank(Submitted(i, "email")))
        => /\ calls[i] = << >>
           /\ Replied(i, 400)

\* C22: a value returned by upsertProfile has exactly one of created and
\* patched set; when patched, profileId is an identifier and the one PATCH of
\* the invocation was sent to it; when created, the invocation made no PATCH
\* and no lookup.
C22_UpsertResultShape ==
    \A i \in Invocations :
        (Main(i) /\ loc[i].upsertResult # NoUpsert)
        => LET u == loc[i].upsertResult IN
           /\ u.created # u.patched
           /\ u.patched =>
                /\ u.profileId # NoId
                /\ Cardinality(CallsOf(i, "patch")) = 1
                /\ \A k \in CallsOf(i, "patch") : calls[i][k].id = u.profileId
           /\ u.created =>
                /\ CallsOf(i, "patch") = {}
                /\ CallsOf(i, "lookupByEmail") = {}
                /\ CallsOf(i, "lookupByPhone") = {}
           /\ \A k \in 1..Len(resp[i]) : resp[i][k].upsert \in {NoUpsert, u}

C22_Witness ==
    \E i \in Invocations :
        /\ Main(i) /\ Done(i)
        /\ loc[i].upsertResult = [created |-> FALSE, patched |-> TRUE, profileId |-> PhoneOwnerId]
        /\ \E k \in CallsOf(i, "patch") : calls[i][k].id = PhoneOwnerId
        /\ Replied(i, 200) /\ resp[i][1].upsert = loc[i].upsertResult

\* The create call of invocation i was answered, neither with a 2xx status
\* nor with 409.
CreateFailed(i) ==
    /\ calls[i] # << >>
    /\ pc[i] # "create"
    /\ ~hist[i].conflict
    /\ ~loc[i].upsertResult.created

\* C23: in the handler of src/api/klaviyo.js a create call answered with a
\* failure other than 409 ends the request: no lookup, PATCH or subscription
\* call follows, and the response is the 500 error, never ok or skipped.
C23_CreateFailureIsFatal ==
    \A i \in Invocations :
        (Main(i) /\ CreateFailed(i))
        => /\ Len(calls[i]) = 1 /\ calls[i][1].op = "create"
           /\ Done(i)
           /\ Replied(i, 500) /\ resp[i][1].error = "Internal Error"
           /\ resp[i][1].status \notin {"ok", "skipped"}

C23_Witness ==
    \E i \in Invocations :
        /\ Main(i) /\ CreateFailed(i)
        /\ Replied(i, 500)
        /\ resp[i][1].message.status = 500 /\ resp[i][1].message.path = "/api/profiles"

\* C24: in the handler of src/api/klaviyo.js, with both lists configured,
\* when create answers 409 and every later upstream call of the invocation
\* is answered with a success status, the lookup by email that finds no
\* profile included, the response is 200 with status ok.
C24_ConflictIsAbsorbed ==
    \A i \in Invocations :
        (/\ Main(i) /\ Done(i)
         /\ hist[i].conflict /\ ~hist[i].fault
         /\ str(env.KLAVIYO_LIST_1) # << >> /\ str(env.KLAVIYO_LIST_2) # << >>)
        => Replied(i, 200) /\ resp[i][1].status = "ok"

\* The subscription jobs that invocation i posted for the list.
JobsFor(i, list) == {k \in CallsOf(i, "subscribe") : calls[i][k].list = list}

\* C25: one invocation of the handler of src/api/klaviyo.js posts at most one
\* profile create, at most one PATCH and at most one subscription job per
\* configured list, whatever the contacts API answers.
C25_NoRepeatedWrites ==
    \A i \in Invocations :
        Main(i) =>
            /\ Cardinality(CallsOf(i, "create")) <= 1
            /\ Cardinality(CallsOf(i, "patch")) <= 1
            /\ Cardinality(JobsFor(i, str(env.KLAVIYO_LIST_1))) <= 1
            /\ Cardinality(JobsFor(i, str(env.KLAVIYO_LIST_2))) <= 1
            /\ Cardinality(CallsOf(i, "subscribe")) <= 2

C25_Witness ==
    \E i \in Invocations :
        /\ Main(i) /\ Done(i) /\ hist[i].conflict /\ hist[i].fault
        /\ loc[i].sub.A = "failed" /\ loc[i].sub.B = "failed"
        /\ Cardinality(CallsOf(i, "create")) = 1
        /\ Cardinality(CallsOf(i, "patch")) = 1
        /\ Cardinality(JobsFor(i, ListA)) = 1 /\ Cardinality(JobsFor(i, ListB)) = 1

\* C26: in the handler of src/api/klaviyo.js every subscription job grants
\* the email consent, and grants the SMS consent and carries a phone_number
\* exactly when the submitted phone passes the E.164 check; phone_included
\* of the ok response is that same condition.
C26_SmsOnlyWithValidPhone ==
    \A i \in Invocations :
        Main(i) =>
            LET valid == isE164Phone(Submitted(i, "phone")) IN
            /\ \A k \in CallsOf(i, "subscribe") :
                    /\ calls[i][k].emailConsent
                    /\ calls[i][k].sms <=> valid
                    /\ calls[i][k].phone_number # Undef <=> valid
                    /\ valid => calls[i][k].phone_number = S(str(Submitted(i, "phone")))
            /\ \A k \in 1..Len(resp[i]) :
                    resp[i][k].status = "ok" => (resp[i][k].phone_included <=> valid)

C26_Witness ==
    \E i \in Invocations :
        /\ Main(i) /\ Done(i)
        /\ Submitted(i, "phone") = S(<<" ">> \o ValidPhone)
        /\ Replied(i, 200) /\ resp[i][1].status = "ok" /\ resp[i][1].phone_included
        /\ \A k \in CallsOf(i, "subscribe") : calls[i][k].sms /\ calls[i][k].phone_number = S(ValidPhone)
        /\ Cardinality(CallsOf(i, "subscribe")) = 2

\* The E.164 pattern: '+', then 1 to 15 digits of which the first is 1-9.
E164(v) ==
    LET s == str(v) IN
    /\ Len(s) >= 2
    /\ Len(s) <= 16
    /\ s[1] = "+"
    /\ s[2] \in Digits \ {"0"}
    /\ \A k \in 3..Len(s) : s[k] \in Digits

\* C27: isE164Phone of src/api/klaviyo.js accepts exactly the phone numbers
\* made of '+' and 1 to 15 digits with a first digit 1-9: one digit 1-9 and
\* fifteen digits are accepted, sixteen digits and a leading 0 are rejected;
\* the handler keeps the phone it accepts.
C27_E164Range ==
    \A i \in Invocations :
        (Main(i) /\ Served(i) /\ pc[i] # "readRawBody")
        => /\ isE164Phone(Submitted(i, "phone")) <=> E164(Submitted(i, "phone"))
           /\ loc[i].phone # << >> <=> E164(Submitted(i, "phone"))

\* C28: in the handler of src/api/klaviyo.js a POST that passes the auth gate
\* with a body that is absent, null or not an object is handled as an empty
\* submission under every content type: it is answered 400 "Missing email",
\* never 500.
C28_MalformedBodyIs400 ==
    \A i \in Invocations :
        (Main(i) /\ Done(i) /\ PassesGate(i) /\ req[i].body.t # "object")
        => /\ ~Caught(i)
           /\ Replied(i, 400) /\ resp[i][1].error = "Missing email"

\* C29: the handlers of src/api/klaviyo.js and src/unnamed/part_004 answer
\* the missing-list error of a deployment that lacks a list id without
\* having issued a call to the contacts API: no profile was created or
\* patched by a request that ends in that error.
C29_MissingListMakesNoCall ==
    \A i \in Invocations :
        (/\ req[i].handler \in {"klaviyo", "basin"} /\ Done(i)
         /\ (str(env.KLAVIYO_LIST_1) = << >> \/ str(env.KLAVIYO_LIST_2) = << >>)
         /\ Replied(i, 500)
         /\ resp[i][1].error = "Missing KLAVIYO_LIST_A_ID or KLAVIYO_LIST_B_ID")
        => /\ calls[i] = << >>
           /\ ~loc[i].upsertResult.created /\ ~loc[i].upsertResult.patched

\* The success messages of the klaviyo-webhook handler and of the second
\* handler of src/unnamed/part_000.
SuccessMessages ==
    {Message("Successfully processed and added user to Klaviyo lists"), Message("Processed successfully")}

\* C30: the klaviyo-webhook handler and the second handler of
\* src/unnamed/part_000 answer 200 with the success message only when every
\* list-membership and subscription call of the invocation was answered with
\* a success status.
C30_SuccessMeansAllListsDone ==
    \A i \in Invocations :
        (/\ req[i].handler \in {"webhook", "part000"} /\ Done(i)
         /\ Replied(i, 200) /\ resp[i][1].message \in SuccessMessages)
        => UpstreamSucceeds(i)

====
